---- MODULE Spec2Model ----
(***************************************************************************)
(* Model of the movie store (internal/data: MovieModel.Insert, Get,        *)
(* Update, Delete) and of ValidateMovie.                                   *)
(*                                                                         *)
(* The relational backend is modelled as a table `rows` keyed by id with a *)
(* serial id sequence and a clock.  Every SQL statement is one atomic      *)
(* step: it either executes and answers, or the driver fails and the       *)
(* statement has no effect.                                                *)
(***************************************************************************)
EXTENDS Integers, Sequences, FiniteSets, TLC

(* ---------------- bounds ---------------- *)
MaxCalls == 5       \* backend round trips explored

Clients == {1, 2}                 \* two concurrent callers
IdArgs == {0 - 1, 0, 1, 2}        \* id arguments tried by Get and Delete

(* ---------------- error values ---------------- *)
NoErr == "nil"
ErrRecordNotFound == "ErrRecordNotFound"      \* the store's NotFound
SqlErrNoRows == "sql.ErrNoRows"               \* database/sql sentinel
DriverErr == "driver error"                   \* any other driver failure
StoreErrors == {ErrRecordNotFound, DriverErr}

(* ---------------- the Movie struct ---------------- *)
\* A Go slice: nil is distinct from an empty non-nil slice.
NilSlice == [isNil |-> TRUE, elems |-> <<>>]
Slice(s) == [isNil |-> FALSE, elems |-> s]

\* The client-settable fields a caller fills in before Insert / Update.
Payloads ==
    { [Title |-> <<"T">>, Year |-> 1997, Runtime |-> 195,
       Genres |-> Slice(<<"drama", "romance">>)],
      [Title |-> <<"A">>, Year |-> 1979, Runtime |-> 117,
       Genres |-> Slice(<<"horror">>)] }

\* Zero value of Movie with the payload fields filled in.
Movie(p) ==
    [ID |-> 0, CreatedAt |-> 0, Title |-> p.Title, Year |-> p.Year,
     Runtime |-> p.Runtime, Genres |-> p.Genres, Version |-> 0]

\* The caller edits the payload fields of a movie it holds.
WithPayload(m, p) ==
    [m EXCEPT !.Title = p.Title, !.Year = p.Year,
              !.Runtime = p.Runtime, !.Genres = p.Genres]

NilMovie == [ID |-> 0 - 1, CreatedAt |-> 0, Title |-> <<>>, Year |-> 0,
             Runtime |-> 0, Genres |-> NilSlice, Version |-> 0 - 1]

VARIABLES
    rows,       \* the movies table: id -> row, for the ids present
    nextId,     \* the serial sequence behind movies.id
    dbCalls,    \* number of statements sent to the backend
    held,       \* held[c]: the *Movie caller c holds (NilMovie = nil);
                \* a caller whose store call fails drops its movie
    last,       \* the last store call: op, caller, id, fields passed, error
    readAt,     \* history: version caller c saw at its last successful Get
    deleted,    \* history: ids removed by a successful Delete
    nUpdates,   \* history: successful Updates applied to each row
    vmovie,     \* ValidateMovie: the movie under validation
    currentYear,\* ValidateMovie: time.Now().Year()
    verrors,    \* ValidateMovie: Validator.Errors
    vdone       \* ValidateMovie has returned

storeVars == <<rows, nextId, dbCalls, held, last, readAt,
               deleted, nUpdates>>
valVars == <<vmovie, currentYear, verrors, vdone>>
vars == <<rows, nextId, dbCalls, held, last, readAt,
          deleted, nUpdates, vmovie, currentYear, verrors, vdone>>

(* ---------------- the backend's statements ---------------- *)
\* The backend clock: a statement runs later than all statements before it.
Now(calls) == calls + 1

\* mutant: the year and runtime arguments bound in the wrong order
InsertRowSwapped(id, t, movie) ==
    [id |-> id, created_at |-> t, title |-> movie.Title,
     year |-> movie.Runtime, runtime |-> movie.Year,
     genres |-> movie.Genres, version |-> 1]

\* INSERT INTO movies (title, year, runtime, genres) VALUES (...)
\* id from the serial sequence, created_at DEFAULT now(), version DEFAULT 1
InsertRow(id, t, movie) ==
    [id |-> id, created_at |-> t, title |-> movie.Title, year |-> movie.Year,
     runtime |-> movie.Runtime, genres |-> movie.Genres, version |-> 1]

\* mutant: a compare-and-swap guard, WHERE id = $5 AND version = $6
UpdateMatchesVersion(row, movie) ==
    row.id = movie.ID /\ row.version = movie.Version

\* WHERE clause of the UPDATE statement
UpdateMatches(row, movie) == row.id = movie.ID

\* mutant: the SET list without version = version + 1
UpdateRowNoBump(row, movie) ==
    [row EXCEPT !.title = movie.Title, !.year = movie.Year,
                !.runtime = movie.Runtime, !.genres = movie.Genres]

\* mutant: version = $6 + 1, computed from the version the caller holds
UpdateRowFromCaller(row, movie) ==
    [row EXCEPT !.title = movie.Title, !.year = movie.Year,
                !.runtime = movie.Runtime, !.genres = movie.Genres,
                !.version = movie.Version + 1]

\* SET title=$1, year=$2, runtime=$3, genres=$4, version = version + 1
UpdateRow(row, movie) ==
    [row EXCEPT !.title = movie.Title, !.year = movie.Year,
                !.runtime = movie.Runtime, !.genres = movie.Genres,
                !.version = row.version + 1]

\* mutant: WHERE id <= $1
DeleteMatchesUpTo(tbl, id) == {i \in DOMAIN tbl : i <= id}

\* DELETE FROM movies WHERE id = $1 : the ids of the rows removed
DeleteMatches(tbl, id) == {i \in DOMAIN tbl : i = id}

Restrict(tbl, S) == [i \in S |-> tbl[i]]

(* ---------------- the store's own logic ---------------- *)
\* mutant: id <= 0 rejected locally
NonPositiveId(id) == id <= 0

\* the local fast path of Get and Delete
NegativeId(id) == id < 0

\* mutant: Scan's error returned unclassified
GetErrorRaw(err) == err

\* Get's classification of Scan's error
GetError(err) == IF err = SqlErrNoRows THEN ErrRecordNotFound ELSE err

\* Update returns Scan's error as it is
UpdateError(err) == err

\* Delete's result from RowsAffected
DeleteError(rowsAffected) ==
    IF rowsAffected = 0 THEN ErrRecordNotFound ELSE NoErr

\* A store call as seen by its caller: the arguments and the returned error.
NoArg == [Title |-> <<>>, Year |-> 0, Runtime |-> 0, Genres |-> NilSlice]
Call(op, c, id, arg, err) ==
    [op |-> op, client |-> c, id |-> id, arg |-> arg, err |-> err]

InitVal ==
    /\ vmovie = NilMovie
    /\ currentYear = 0
    /\ verrors = <<>>
    /\ vdone = FALSE

InitStore ==
    /\ rows = <<>>
    /\ nextId = 1
    /\ dbCalls = 0
    /\ held = [c \in Clients |-> NilMovie]
    /\ last = Call("none", 0, 0, NoArg, NoErr)
    /\ readAt = [c \in Clients |-> 0]
    /\ deleted = {}
    /\ nUpdates = <<>>

Init == InitStore /\ InitVal

\* MovieModel.Insert(movie) with movie = &Movie{payload}
Insert(c, p, fail) ==
    LET movie == Movie(p) IN
    /\ dbCalls < MaxCalls
    /\ dbCalls' = dbCalls + 1
    /\ IF fail
       THEN /\ held' = [held EXCEPT ![c] = NilMovie]
            /\ last' = Call("Insert", c, 0, p, DriverErr)
            /\ UNCHANGED <<rows, nextId, nUpdates, deleted>>
       ELSE LET row == InsertRow(nextId, Now(dbCalls), movie) IN
            /\ rows' = [i \in DOMAIN rows \cup {row.id} |->
                          IF i = row.id THEN row ELSE rows[i]]
            /\ nUpdates' = [i \in DOMAIN rows \cup {row.id} |->
                          IF i = row.id THEN 0 ELSE nUpdates[i]]
            /\ nextId' = nextId + 1
            /\ deleted' = deleted \ {row.id}
            \* Scan(&movie.ID, &movie.CreatedAt, &movie.Version)
            /\ held' = [held EXCEPT ![c] =
                          [movie EXCEPT !.ID = row.id,
                                        !.CreatedAt = row.created_at,
                                        !.Version = row.version]]
            /\ last' = Call("Insert", c, row.id, p, NoErr)
    /\ readAt' = [readAt EXCEPT ![c] = 0]
    /\ UNCHANGED valVars

RowToMovie(row) ==
    [ID |-> row.id, CreatedAt |-> row.created_at, Title |-> row.title,
     Year |-> row.year, Runtime |-> row.runtime, Genres |-> row.genres,
     Version |-> row.version]

\* movie, err := MovieModel.Get(id)
Get(c, id, fail) ==
    /\ IF NegativeId(id)
       THEN /\ held' = [held EXCEPT ![c] = NilMovie]
            /\ last' = Call("Get", c, id, NoArg, ErrRecordNotFound)
            /\ readAt' = [readAt EXCEPT ![c] = 0]
            /\ UNCHANGED dbCalls
       ELSE /\ dbCalls < MaxCalls
            /\ dbCalls' = dbCalls + 1
            /\ LET err == IF fail THEN DriverErr
                          ELSE IF id \in DOMAIN rows THEN NoErr
                          ELSE SqlErrNoRows
               IN IF err # NoErr
                  THEN /\ held' = [held EXCEPT ![c] = NilMovie]
                       /\ last' = Call("Get", c, id, NoArg, GetError(err))
                       /\ readAt' = [readAt EXCEPT ![c] = 0]
                  ELSE /\ held' = [held EXCEPT ![c] = RowToMovie(rows[id])]
                       /\ last' = Call("Get", c, id, NoArg, NoErr)
                       /\ readAt' = [readAt EXCEPT ![c] = rows[id].version]
    /\ UNCHANGED <<rows, nextId, deleted, nUpdates>>
    /\ UNCHANGED valVars

\* MovieModel.Update(movie), movie being the one c holds with new field values
Update(c, p, fail) ==
    /\ held[c] # NilMovie
    /\ dbCalls < MaxCalls
    /\ dbCalls' = dbCalls + 1
    /\ LET movie == WithPayload(held[c], p)
           hit == {i \in DOMAIN rows : UpdateMatches(rows[i], movie)}
           err == IF fail THEN DriverErr
                  ELSE IF hit = {} THEN SqlErrNoRows ELSE NoErr
       IN IF err # NoErr
          THEN /\ held' = [held EXCEPT ![c] = NilMovie]
               /\ readAt' = [readAt EXCEPT ![c] = 0]
               /\ last' = Call("Update", c, movie.ID, p, UpdateError(err))
               /\ UNCHANGED <<rows, nUpdates>>
          ELSE /\ rows' = [i \in DOMAIN rows |->
                             IF i \in hit THEN UpdateRow(rows[i], movie)
                             ELSE rows[i]]
               /\ nUpdates' = [i \in DOMAIN rows |->
                             IF i \in hit THEN nUpdates[i] + 1
                             ELSE nUpdates[i]]
               \* RETURNING version ... Scan(&movie.Version)
               /\ held' = [held EXCEPT ![c] =
                             [movie EXCEPT !.Version =
                                 rows'[CHOOSE i \in hit : TRUE].version]]
               /\ last' = Call("Update", c, movie.ID, p, NoErr)
               /\ UNCHANGED readAt
    /\ UNCHANGED <<nextId, deleted>>
    /\ UNCHANGED valVars

\* MovieModel.Delete(id); the call involves no Movie, so no caller is named
Delete(id, fail) ==
    /\ IF NegativeId(id)
       THEN /\ last' = Call("Delete", 0, id, NoArg, ErrRecordNotFound)
            /\ UNCHANGED <<rows, dbCalls, deleted, nUpdates>>
       ELSE /\ dbCalls < MaxCalls
            /\ dbCalls' = dbCalls + 1
            /\ IF fail
               THEN /\ last' = Call("Delete", 0, id, NoArg, DriverErr)
                    /\ UNCHANGED <<rows, deleted, nUpdates>>
               ELSE LET gone == DeleteMatches(rows, id)
                        rowsAffected == Cardinality(gone)
                    IN /\ rows' = Restrict(rows, DOMAIN rows \ gone)
                       /\ nUpdates' = Restrict(nUpdates, DOMAIN rows \ gone)
                       /\ last' = Call("Delete", 0, id, NoArg,
                                       DeleteError(rowsAffected))
                       /\ deleted' = IF DeleteError(rowsAffected) = NoErr
                                     THEN deleted \cup {id} ELSE deleted
    /\ UNCHANGED <<nextId, held, readAt>>
    /\ UNCHANGED valVars

Next ==
    \/ \E c \in Clients, p \in Payloads, fail \in BOOLEAN : Insert(c, p, fail)
    \/ \E c \in Clients, id \in IdArgs, fail \in BOOLEAN : Get(c, id, fail)
    \/ \E c \in Clients, p \in Payloads, fail \in BOOLEAN : Update(c, p, fail)
    \/ \E id \in IdArgs, fail \in BOOLEAN : Delete(id, fail)

Spec == Init /\ [][Next]_vars

(* ---------------- validation ---------------- *)
\* Validator.Check / AddError: a message is recorded under key only if the
\* key has none yet.
Check(errors, ok, key, message) ==
    IF ok \/ key \in DOMAIN errors
    THEN errors
    ELSE [k \in DOMAIN errors \cup {key} |->
            IF k = key THEN message ELSE errors[k]]

\* validator.CheckForEmptyStrings: no element is the empty string
CheckForEmptyStrings(g) == \A i \in 1..Len(g.elems) : g.elems[i] # ""

\* validator.Unique: no two elements are equal
Unique(g) ==
    \A i, j \in 1..Len(g.elems) : i # j => g.elems[i] # g.elems[j]

\* mutant: the year rule with an inclusive lower bound
ValidateMovieYearInclusive(v, movie, year) ==
    LET e1 == Check(v, movie.Title # <<>>, "title", "cannot be empty")
        e2 == Check(e1, Len(movie.Title) < 500, "title",
                    "must be under 500 characters")
        e3 == Check(e2, movie.Year # 0, "year", "cannpt be empty")
        e4 == Check(e3, movie.Year >= 1888 /\ movie.Year <= year, "year",
                    "must be between 1888 and today")
        e5 == Check(e4, movie.Runtime > 0, "runtime",
                    "must be a positive integer")
        e6 == Check(e5, ~movie.Genres.isNil, "genres", "cannot be empty")
        e7 == Check(e6, CheckForEmptyStrings(movie.Genres), "genres",
                    "cannot be empty")
        e8 == Check(e7, Len(movie.Genres.elems) > 0
                        /\ Len(movie.Genres.elems) <= 5, "genres",
                    "must have between 1 and 5 genres")
        e9 == Check(e8, Unique(movie.Genres), "genres", "must be unique")
    IN e9

\* mutant: the genres count rule run before the nil and empty-string rules
ValidateMovieCountFirst(v, movie, year) ==
    LET e1 == Check(v, movie.Title # <<>>, "title", "cannot be empty")
        e2 == Check(e1, Len(movie.Title) < 500, "title",
                    "must be under 500 characters")
        e3 == Check(e2, movie.Year # 0, "year", "cannpt be empty")
        e4 == Check(e3, movie.Year > 1888 /\ movie.Year <= year, "year",
                    "must be between 1888 and today")
        e5 == Check(e4, movie.Runtime > 0, "runtime",
                    "must be a positive integer")
        e6 == Check(e5, Len(movie.Genres.elems) > 0
                        /\ Len(movie.Genres.elems) <= 5, "genres",
                    "must have between 1 and 5 genres")
        e7 == Check(e6, ~movie.Genres.isNil, "genres", "cannot be empty")
        e8 == Check(e7, CheckForEmptyStrings(movie.Genres), "genres",
                    "cannot be empty")
        e9 == Check(e8, Unique(movie.Genres), "genres", "must be unique")
    IN e9

ValidateMovie(v, movie, year) ==
    LET e1 == Check(v, movie.Title # <<>>, "title", "cannot be empty")
        e2 == Check(e1, Len(movie.Title) < 500, "title",
                    "must be under 500 characters")
        e3 == Check(e2, movie.Year # 0, "year", "cannpt be empty")
        e4 == Check(e3, movie.Year > 1888 /\ movie.Year <= year, "year",
                    "must be between 1888 and today")
        e5 == Check(e4, movie.Runtime > 0, "runtime",
                    "must be a positive integer")
        e6 == Check(e5, ~movie.Genres.isNil, "genres", "cannot be empty")
        e7 == Check(e6, CheckForEmptyStrings(movie.Genres), "genres",
                    "cannot be empty")
        e8 == Check(e7, Len(movie.Genres.elems) > 0
                        /\ Len(movie.Genres.elems) <= 5, "genres",
                    "must have between 1 and 5 genres")
        e9 == Check(e8, Unique(movie.Genres), "genres", "must be unique")
    IN e9

\* inputs of the validation runs
TitleOfLen(n) == [i \in 1..n |-> "x"]
Titles == {TitleOfLen(0), TitleOfLen(1), TitleOfLen(499), TitleOfLen(500)}
Years == {0 - 1, 0, 1, 1887, 1888, 1889, 2025, 2026, 2027}
Runtimes == {0 - 1, 0, 1, 195}
GenreLists ==
    { NilSlice, Slice(<<>>), Slice(<<"">>), Slice(<<"drama">>),
      Slice(<<"drama", "">>), Slice(<<"drama", "drama">>),
      Slice(<<"a", "b", "c", "d", "e">>),
      Slice(<<"a", "b", "c", "d", "e", "f">>),
      Slice(<<"a", "b", "c", "d", "e", "a">>),
      Slice(<<"a", "b", "c", "d", "e", "">>) }
CurrentYears == {2025, 2026}

InitValidate ==
    /\ InitStore
    /\ vmovie \in { Movie([Title |-> t, Year |-> y, Runtime |-> r,
                            Genres |-> g]) :
                      t \in Titles, y \in Years, r \in Runtimes,
                      g \in GenreLists }
    /\ currentYear \in CurrentYears
    /\ verrors = <<>>          \* validator.New()
    /\ vdone = FALSE

Validate ==
    /\ ~vdone
    /\ verrors' = ValidateMovie(verrors, vmovie, currentYear)
    /\ vdone' = TRUE
    /\ UNCHANGED <<vmovie, currentYear>>
    /\ UNCHANGED storeVars

NextValidate == Validate

SpecValidate == InitValidate /\ [][NextValidate]_vars

(* ======================= properties ======================= *)
\* The payload fields of a Movie struct and of a table row.
MoviePayload(m) ==
    [Title |-> m.Title, Year |-> m.Year, Runtime |-> m.Runtime,
     Genres |-> m.Genres]
RowPayload(r) ==
    [Title |-> r.title, Year |-> r.year, Runtime |-> r.runtime,
     Genres |-> r.genres]

\* C1: a successful Update of a movie whose id matches a row makes the stored
\* version and the version written back into the caller's movie equal to the
\* old version + 1, and leaves the row's id and created_at (and the movie's
\* ID and CreatedAt) unchanged.
C1_UpdateStep ==
    (last'.op = "Update" /\ last'.err = NoErr) =>
        LET c == last'.client
            id == last'.id
        IN /\ id \in DOMAIN rows
           /\ id \in DOMAIN rows'
           /\ rows'[id].version = rows[id].version + 1
           /\ held'[c].Version = rows[id].version + 1
           /\ rows'[id].id = id
           /\ rows'[id].created_at = rows[id].created_at
           /\ held'[c].ID = held[c].ID
           /\ held'[c].CreatedAt = held[c].CreatedAt
C1_UpdateIncrementsVersion == [][C1_UpdateStep]_vars

C1_Witness ==
    /\ last.op = "Update"
    /\ last.err = NoErr
    /\ last.id \in DOMAIN rows
    /\ rows[last.id].version = 2
    /\ held[last.client].Version = 2

\* C2: every error Get, Update and Delete return is the store's NotFound or
\* an opaque backend error; in particular an Update whose id matches no row
\* returns NotFound.
C2_ErrorsClassified ==
    last.op \in {"Get", "Update", "Delete"} =>
        last.err \in {NoErr} \cup StoreErrors

\* C3: when the backend executes the DELETE, Delete(id) on an id with no row
\* returns NotFound and leaves the table as it was; on an existing id it
\* returns success and removes that row and no other.
C3_DeleteStep ==
    (last'.op = "Delete" /\ last'.err # DriverErr) =>
        LET id == last'.id
        IN IF id \in DOMAIN rows
           THEN /\ last'.err = NoErr
                /\ DOMAIN rows' = DOMAIN rows \ {id}
                /\ \A i \in DOMAIN rows' : rows'[i] = rows[i]
           ELSE /\ last'.err = ErrRecordNotFound
                /\ rows' = rows
C3_DeleteExactlyOne == [][C3_DeleteStep]_vars

C3_Witness ==
    /\ last.op = "Delete"
    /\ last.err = NoErr
    /\ last.id \notin DOMAIN rows
    /\ DOMAIN rows # {}

\* C4: Get and Delete with id < 0 return NotFound and send nothing to the
\* backend (the call count is unchanged); with id >= 0, 0 included, they send
\* one statement.
C4_NegativeIdStep ==
    (last'.op \in {"Get", "Delete"}) =>
        IF last'.id < 0
        THEN last'.err = ErrRecordNotFound /\ dbCalls' = dbCalls
        ELSE dbCalls' = dbCalls + 1
C4_NegativeIdNoQuery == [][C4_NegativeIdStep]_vars

C4_Witness ==
    /\ last.op \in {"Get", "Delete"}
    /\ last.id < 0
    /\ last.err = ErrRecordNotFound
    /\ dbCalls > 0
    /\ DOMAIN rows # {}

\* C5: a successful Insert adds one row under an id > 0 no row had, and the
\* caller's movie gets that id, a set CreatedAt and Version 1, its title,
\* year, runtime and genres being the values passed in, which the new row
\* stores.
C5_InsertStep ==
    (last'.op = "Insert" /\ last'.err = NoErr) =>
        LET c == last'.client
            id == last'.id
            p == last'.arg
        IN /\ id > 0
           /\ id \notin DOMAIN rows
           /\ DOMAIN rows' = DOMAIN rows \cup {id}
           /\ \A i \in DOMAIN rows : rows'[i] = rows[i]
           /\ held'[c].ID = id
           /\ held'[c].CreatedAt # 0
           /\ held'[c].Version = 1
           /\ MoviePayload(held'[c]) = p
           /\ RowPayload(rows'[id]) = p
           /\ rows'[id].id = id
           /\ rows'[id].version = 1
           /\ rows'[id].created_at = held'[c].CreatedAt
C5_InsertAssigns == [][C5_InsertStep]_vars

C5_Witness ==
    /\ last.op = "Insert"
    /\ last.err = NoErr
    /\ last.id = 2
    /\ 1 \in DOMAIN rows
    /\ RowPayload(rows[1]) # RowPayload(rows[2])

\* C6: after ValidateMovie on a fresh Validator each field holds the message
\* of the first failing rule of that field, in the order the rules run, and
\* no message when none of its rules fails; the fields are independent.
C6_Expected(movie, year) ==
    [title |->
        IF movie.Title = <<>> THEN "cannot be empty"
        ELSE IF Len(movie.Title) >= 500 THEN "must be under 500 characters"
        ELSE "",
     year |->
        IF movie.Year = 0 THEN "cannpt be empty"
        ELSE IF movie.Year <= 1888 \/ movie.Year > year
             THEN "must be between 1888 and today"
        ELSE "",
     runtime |->
        IF movie.Runtime <= 0 THEN "must be a positive integer" ELSE "",
     genres |->
        IF movie.Genres.isNil THEN "cannot be empty"
        ELSE IF \E i \in 1..Len(movie.Genres.elems) :
                   movie.Genres.elems[i] = ""
             THEN "cannot be empty"
        ELSE IF Len(movie.Genres.elems) = 0 \/ Len(movie.Genres.elems) > 5
             THEN "must have between 1 and 5 genres"
        ELSE IF Cardinality({movie.Genres.elems[i] :
                               i \in 1..Len(movie.Genres.elems)})
                  < Len(movie.Genres.elems)
             THEN "must be unique"
        ELSE ""]

C6_FirstFailureWins ==
    vdone =>
        /\ DOMAIN verrors \subseteq {"title", "year", "runtime", "genres"}
        /\ \A f \in {"title", "year", "runtime", "genres"} :
              IF C6_Expected(vmovie, currentYear)[f] = ""
              THEN f \notin DOMAIN verrors
              ELSE /\ f \in DOMAIN verrors
                   /\ verrors[f] = C6_Expected(vmovie, currentYear)[f]

C6_Witness ==
    /\ vdone
    /\ vmovie.Title = <<>>
    /\ vmovie.Genres.isNil
    /\ vmovie.Year = 0
    /\ vmovie.Runtime = 0
    /\ verrors = [f \in {"title", "year", "runtime", "genres"} |->
                    CASE f = "title" -> "cannot be empty"
                      [] f = "year" -> "cannpt be empty"
                      [] f = "runtime" -> "must be a positive integer"
                      [] f = "genres" -> "cannot be empty"]

\* C7: ValidateMovie records no error on "year" exactly when
\* 1888 < year <= current year; 1888, anything below it (0 included) and
\* anything above the current year get an error on "year".
C7_YearRange ==
    vdone =>
        (("year" \notin DOMAIN verrors) <=>
            (1888 < vmovie.Year /\ vmovie.Year <= currentYear))

C7_Witness ==
    /\ vdone
    /\ vmovie.Year = 1888
    /\ "year" \in DOMAIN verrors
    /\ verrors["year"] = "must be between 1888 and today"

\* C8: two callers c and d hold the same row, both having read it at version
\* v.  Whichever Updates first succeeds and makes the version v + 1; the
\* other's Update, sent with the stale version v, succeeds too (no conflict
\* error), makes the version v + 2 and stores that caller's values.
C8_StaleUpdateStep ==
    (last'.op = "Update" /\ last'.err # DriverErr) =>
        LET d == last'.client
            id == last'.id
        IN \A c \in Clients \ {d} :
             ( /\ held[c].ID = id
               /\ held[d].ID = id
               /\ id \in DOMAIN rows
               /\ readAt[c] > 0
               /\ readAt[c] = readAt[d]
               /\ held[d].Version = readAt[d]
               /\ \/ held[c].Version = readAt[c]
                  \/ held[c].Version = readAt[c] + 1
               /\ rows[id].version = held[c].Version )
             => /\ last'.err = NoErr
                /\ id \in DOMAIN rows'
                /\ rows'[id].version = rows[id].version + 1
                /\ held'[d].Version = rows[id].version + 1
                /\ RowPayload(rows'[id]) = last'.arg
C8_NoConflictDetection == [][C8_StaleUpdateStep]_vars

C8_Witness ==
    /\ last.op = "Update"
    /\ last.err = NoErr
    /\ \E c \in Clients \ {last.client} :
         /\ held[c].ID = last.id
         /\ readAt[c] > 0
         /\ readAt[c] = readAt[last.client]
         /\ held[c].Version = readAt[c] + 1
         /\ held[last.client].Version = readAt[c] + 2
         /\ last.id \in DOMAIN rows
         /\ rows[last.id].version = readAt[c] + 2
         /\ RowPayload(rows[last.id]) = last.arg
         /\ MoviePayload(held[c]) # RowPayload(rows[last.id])

\* C9: once Delete(id) has succeeded, and until an Insert is assigned that
\* id, the table holds no row with that id, and every Get(id) and Delete(id)
\* the backend executes returns NotFound.
C9_DeletedStep ==
    /\ \A id \in deleted' : id \notin DOMAIN rows'
    /\ (last'.op \in {"Get", "Delete"} /\ last'.id \in deleted
          /\ last'.err # DriverErr)
         => last'.err = ErrRecordNotFound
C9_HardDelete == [][C9_DeletedStep]_vars

C9_Witness ==
    /\ last.op = "Get"
    /\ last.id \in deleted
    /\ last.err = ErrRecordNotFound
    /\ nextId > last.id

\* C10: every row's version is 1 + the number of successful Updates applied
\* to it since its Insert; a row's version never decreases and changes only
\* in a successful Update.
C10_VersionCount ==
    \A id \in DOMAIN rows :
        /\ rows[id].version = 1 + nUpdates[id]
        /\ rows[id].version >= 1
C10_VersionStep ==
    /\ C10_VersionCount'
    /\ \A id \in DOMAIN rows \cap DOMAIN rows' :
         /\ rows'[id].version >= rows[id].version
         /\ (last'.op # "Update" \/ last'.err # NoErr \/ last'.id # id)
              => rows'[id].version = rows[id].version
C10_VersionCountsUpdates == C10_VersionCount /\ [][C10_VersionStep]_vars

C10_Witness ==
    /\ \E id \in DOMAIN rows : rows[id].version = 3 /\ nUpdates[id] = 2
    /\ last.op = "Get"
    /\ last.err = NoErr
====
